---- MODULE Spec2Model ----
(***************************************************************************)
(* Lifecycle of the MacPmem kernel extension (MacPmem.c): the start and    *)
(* stop hooks, pmem_init, the rollback routine pmem_cleanup and the        *)
(* character-device dispatch callbacks pmem_open / pmem_close / pmem_read. *)
(*                                                                         *)
(* The module's globals are modelled one to one.  Pointers are 0 (NULL) or *)
(* 1 (a handle).  The host kernel is modelled by `host`, the status of the *)
(* object behind every handle, and by `calls`, the record of every host    *)
(* and collaborator call the module has issued.                            *)
(***************************************************************************)
EXTENDS Integers, Sequences, FiniteSets, TLC

\* ---------------------------------------------------------------- bounds
\* cdevsw_add() answers a number in -1..MaxMajor.
MaxMajor == 2
\* The host calls the stop hook at most MaxStops times.
MaxStops == 2
\* Dispatch requests carry a minor number in 0..MaxMinor.
MaxMinor == 3

\* ------------------------------------------------------------- constants
KERN_SUCCESS == 0
KERN_FAILURE == 5
\* A second non-success kern_return_t a collaborator may answer.
KERN_RESOURCE_SHORTAGE == 6
PMEM_DEV_MINOR == 1
PMEM_INFO_MINOR == 2

Statuses == {KERN_SUCCESS, KERN_FAILURE, KERN_RESOURCE_SHORTAGE}
Minors == 0..MaxMinor
Majors == (-1)..MaxMajor
Handles == {0, 1}

\* Every object the module acquires from the host or from a collaborator.
Resources ==
    {"tag", "rwlock_grp_attr", "rwlock_grp", "mutex_grp_attr", "mutex_grp",
     "cdevsw", "infonode", "devnode", "meta", "pte", "sysctl"}

VARIABLES
    pmem_majorno,               \* int pmem_majorno
    pmem_tag,                   \* OSMallocTag pmem_tag
    pmem_rwlock_grp,            \* lck_grp_t *
    pmem_rwlock_grp_attr,       \* lck_grp_attr_t *
    pmem_mutex_grp,             \* lck_grp_t *
    pmem_mutex_grp_attr,        \* lck_grp_attr_t *
    pmem_infonode,              \* handle of /dev/pmem_info
    pmem_devnode,               \* handle of /dev/pmem
    pmem_sysctl_needs_cleanup,  \* static int flag
    lifecycle,                  \* Unloaded, Acquiring, Running, Unloading,
                                \* LoadFailed, Stopped, Panic
    pc,                         \* position inside the running hook
    cu_idx,                     \* position inside pmem_cleanup, 0 outside
    error,                      \* the local `error` of the running hook
    cleanup_arg,                \* the argument pmem_cleanup was called with
    failed_step,                \* acquisition step whose check failed, 0 if none
    ret,                        \* status returned by the last hook
    ret_hook,                   \* hook that returned last: none, start, stop
    inv,                        \* number of hook invocations so far
    host,                       \* status of each resource at the host
    calls,                      \* every host / collaborator call issued
    last_dispatch               \* the last open / close / read request

globals == <<pmem_majorno, pmem_tag, pmem_rwlock_grp, pmem_rwlock_grp_attr,
             pmem_mutex_grp, pmem_mutex_grp_attr, pmem_infonode, pmem_devnode,
             pmem_sysctl_needs_cleanup>>

control == <<lifecycle, pc, cu_idx, error, cleanup_arg, failed_step, ret,
             ret_hook, inv>>

vars == <<globals, control, host, calls, last_dispatch>>

NoDispatch == [op |-> "none", minor |-> 0, collab |-> 0, ret |-> 0, called |-> {}]

\* ---------------------------------------------------------------- helpers
\* One entry of `calls`: the function, the resource it acts on, whether the
\* handle passed was set (non-NULL / non-zero), whether the object behind it
\* was live at the host when the call was made, the hook invocation it was
\* made in and the value the call answered.
Call(fn, res, set, r) ==
    [fn |-> fn, res |-> res, set |-> set, live |-> host[res] = "live",
     inv |-> inv, ret |-> r]

Acquired(res) == [host EXCEPT ![res] = "live"]
Released(res) == [host EXCEPT ![res] = IF @ = "live" THEN "released" ELSE @]

\* A release through a NULL or dangling pointer is undefined behaviour: the
\* kernel either survives it or panics.
Outcomes(res) == IF host[res] = "live" THEN {"continue"} ELSE {"continue", "panic"}

Panic ==
    /\ lifecycle' = "Panic"
    /\ pc' = "idle"
    /\ cu_idx' = 0
    /\ UNCHANGED <<error, cleanup_arg, failed_step, ret, ret_hook, inv>>

Init ==
    /\ pmem_majorno \in Majors
    /\ pmem_tag = 0
    /\ pmem_rwlock_grp = 0
    /\ pmem_rwlock_grp_attr = 0
    /\ pmem_mutex_grp = 0
    /\ pmem_mutex_grp_attr = 0
    /\ pmem_infonode = 0
    /\ pmem_devnode = 0
    /\ pmem_sysctl_needs_cleanup = 0
    /\ lifecycle = "Unloaded"
    /\ pc = "idle"
    /\ cu_idx = 0
    /\ error = KERN_SUCCESS
    /\ cleanup_arg = KERN_SUCCESS
    /\ failed_step = 0
    /\ ret = KERN_SUCCESS
    /\ ret_hook = "none"
    /\ inv = 0
    /\ host = [r \in Resources |-> "none"]
    /\ calls = <<>>
    /\ last_dispatch = NoDispatch

\* ------------------------------------------------- com_google_MacPmem_start
\* Enters pmem_cleanup(e): the argument becomes the local `error`.
EnterCleanup(e, step) ==
    /\ error' = e
    /\ cleanup_arg' = e
    /\ failed_step' = step
    /\ cu_idx' = 1
    /\ pc' = "cleanup"
    /\ UNCHANGED <<lifecycle, ret, ret_hook, inv>>

Goto(next) ==
    /\ pc' = next
    /\ UNCHANGED <<lifecycle, cu_idx, error, cleanup_arg, failed_step, ret,
                   ret_hook, inv>>

\* The host loads the extension and calls its start hook.
StartCall ==
    /\ lifecycle = "Unloaded"
    /\ lifecycle' = "Acquiring"
    /\ pc' = "init_tag"
    /\ inv' = inv + 1
    /\ ret_hook' = "none"
    /\ UNCHANGED <<globals, cu_idx, error, cleanup_arg, failed_step, ret,
                   host, calls, last_dispatch>>

\* pmem_tag = OSMalloc_Tagalloc(pmem_tagname, OSMT_DEFAULT);
InitTag ==
    /\ lifecycle = "Acquiring" /\ pc = "init_tag"
    /\ \E h \in Handles :
        /\ pmem_tag' = h
        /\ host' = IF h # 0 THEN Acquired("tag") ELSE host
        /\ calls' = Append(calls, Call("OSMalloc_Tagalloc", "tag", TRUE, h))
    /\ Goto("init_rwlock")
    /\ UNCHANGED <<pmem_majorno, pmem_rwlock_grp, pmem_rwlock_grp_attr,
                   pmem_mutex_grp, pmem_mutex_grp_attr, pmem_infonode,
                   pmem_devnode, pmem_sysctl_needs_cleanup, last_dispatch>>

\* attr = lck_grp_attr_alloc_init(); lck_grp_attr_setstat(attr);
\* grp = lck_grp_alloc_init(name, attr);  No result is checked; setstat on
\* a NULL attribute dereferences it.
AllocLockGroup(attrRes, grpRes, a, g, out) ==
    /\ out \in (IF a = 0 THEN {"continue", "panic"} ELSE {"continue"})
    /\ IF out = "panic"
       THEN /\ host' = host
            /\ calls' = calls \o
                 << Call("lck_grp_attr_alloc_init", attrRes, TRUE, a),
                    Call("lck_grp_attr_setstat", attrRes, FALSE, 0) >>
       ELSE /\ host' = [host EXCEPT
                          ![attrRes] = IF a # 0 THEN "live" ELSE @,
                          ![grpRes] = IF g # 0 THEN "live" ELSE @]
            /\ calls' = calls \o
                 << Call("lck_grp_attr_alloc_init", attrRes, TRUE, a),
                    Call("lck_grp_attr_setstat", attrRes, a # 0, 0),
                    Call("lck_grp_alloc_init", grpRes, TRUE, g) >>

InitRwlockGroup ==
    /\ lifecycle = "Acquiring" /\ pc = "init_rwlock"
    /\ \E a \in Handles, g \in Handles, out \in {"continue", "panic"} :
        /\ AllocLockGroup("rwlock_grp_attr", "rwlock_grp", a, g, out)
        /\ pmem_rwlock_grp_attr' = a
        /\ IF out = "panic"
           THEN Panic /\ pmem_rwlock_grp' = pmem_rwlock_grp
           ELSE Goto("init_mutex") /\ pmem_rwlock_grp' = g
    /\ UNCHANGED <<pmem_majorno, pmem_tag, pmem_mutex_grp, pmem_mutex_grp_attr,
                   pmem_infonode, pmem_devnode, pmem_sysctl_needs_cleanup,
                   last_dispatch>>

InitMutexGroup ==
    /\ lifecycle = "Acquiring" /\ pc = "init_mutex"
    /\ \E a \in Handles, g \in Handles, out \in {"continue", "panic"} :
        /\ AllocLockGroup("mutex_grp_attr", "mutex_grp", a, g, out)
        /\ pmem_mutex_grp_attr' = a
        /\ IF out = "panic"
           THEN Panic /\ pmem_mutex_grp' = pmem_mutex_grp
           ELSE Goto("init_major") /\ pmem_mutex_grp' = g
    /\ UNCHANGED <<pmem_majorno, pmem_tag, pmem_rwlock_grp,
                   pmem_rwlock_grp_attr, pmem_infonode, pmem_devnode,
                   pmem_sysctl_needs_cleanup, last_dispatch>>

\* Variant: the answer of cdevsw_add() is never taken as a failure.
MajorRegistrationFailed_Never(n) == FALSE

\* The test pmem_init applies to the answer of cdevsw_add().
MajorRegistrationFailed(n) == n < 0

\* pmem_majorno = cdevsw_add(PMEM_MAJOR, &pmem_cdevsw);  The host answers -1
\* or the index of the slot it assigned; pmem_init takes every answer from 0
\* upward as a registration.
InitMajor ==
    /\ lifecycle = "Acquiring" /\ pc = "init_major"
    /\ \E n \in Majors :
        /\ pmem_majorno' = n
        /\ calls' = Append(calls, Call("cdevsw_add", "cdevsw", TRUE, n))
        /\ host' = IF n >= 0 THEN Acquired("cdevsw") ELSE host
        /\ IF MajorRegistrationFailed(n)
           THEN EnterCleanup(KERN_FAILURE, 2)
           ELSE Goto("init_info")
    /\ UNCHANGED <<pmem_tag, pmem_rwlock_grp, pmem_rwlock_grp_attr,
                   pmem_mutex_grp, pmem_mutex_grp_attr, pmem_infonode,
                   pmem_devnode, pmem_sysctl_needs_cleanup, last_dispatch>>

\* pmem_infonode = devfs_make_node(makedev(pmem_majorno, PMEM_INFO_MINOR), ..)
InitInfoNode ==
    /\ lifecycle = "Acquiring" /\ pc = "init_info"
    /\ \E h \in Handles :
        /\ pmem_infonode' = h
        /\ calls' = Append(calls, Call("devfs_make_node", "infonode", TRUE, h))
        /\ host' = IF h # 0 THEN Acquired("infonode") ELSE host
        /\ IF h = 0
           THEN EnterCleanup(KERN_FAILURE, 3)
           ELSE Goto("init_dev")
    /\ UNCHANGED <<pmem_majorno, pmem_tag, pmem_rwlock_grp,
                   pmem_rwlock_grp_attr, pmem_mutex_grp, pmem_mutex_grp_attr,
                   pmem_devnode, pmem_sysctl_needs_cleanup, last_dispatch>>

\* pmem_devnode = devfs_make_node(makedev(pmem_majorno, PMEM_DEV_MINOR), ..)
InitDevNode ==
    /\ lifecycle = "Acquiring" /\ pc = "init_dev"
    /\ \E h \in Handles :
        /\ pmem_devnode' = h
        /\ calls' = Append(calls, Call("devfs_make_node", "devnode", TRUE, h))
        /\ host' = IF h # 0 THEN Acquired("devnode") ELSE host
        /\ IF h = 0
           THEN EnterCleanup(KERN_FAILURE, 4)
           ELSE Goto("meta_init")
    /\ UNCHANGED <<pmem_majorno, pmem_tag, pmem_rwlock_grp,
                   pmem_rwlock_grp_attr, pmem_mutex_grp, pmem_mutex_grp_attr,
                   pmem_infonode, pmem_sysctl_needs_cleanup, last_dispatch>>

\* error = pmem_meta_init(); if (error != KERN_SUCCESS) return pmem_cleanup(error);
\* The collaborator answers any kern_return_t; an init that fails holds nothing.
MetaInit ==
    /\ lifecycle = "Acquiring" /\ pc = "meta_init"
    /\ \E r \in Statuses :
        /\ calls' = Append(calls, Call("pmem_meta_init", "meta", TRUE, r))
        /\ host' = IF r = KERN_SUCCESS THEN Acquired("meta") ELSE host
        /\ IF r # KERN_SUCCESS
           THEN EnterCleanup(r, 5)
           ELSE /\ error' = r
                /\ pc' = "pte_init"
                /\ UNCHANGED <<lifecycle, cu_idx, cleanup_arg, failed_step,
                               ret, ret_hook, inv>>
    /\ UNCHANGED <<globals, last_dispatch>>

\* error = pmem_pte_init(); if (error != KERN_SUCCESS) return pmem_cleanup(error);
PteInit ==
    /\ lifecycle = "Acquiring" /\ pc = "pte_init"
    /\ \E r \in Statuses :
        /\ calls' = Append(calls, Call("pmem_pte_init", "pte", TRUE, r))
        /\ host' = IF r = KERN_SUCCESS THEN Acquired("pte") ELSE host
        /\ IF r # KERN_SUCCESS
           THEN EnterCleanup(r, 6)
           ELSE /\ error' = r
                /\ pc' = "sysctl_reg"
                /\ UNCHANGED <<lifecycle, cu_idx, cleanup_arg, failed_step,
                               ret, ret_hook, inv>>
    /\ UNCHANGED <<globals, last_dispatch>>

\* sysctl_register_oid(..); pmem_sysctl_needs_cleanup = 1; return error;
SysctlRegister ==
    /\ lifecycle = "Acquiring" /\ pc = "sysctl_reg"
    /\ calls' = Append(calls, Call("sysctl_register_oid", "sysctl", TRUE, 0))
    /\ host' = Acquired("sysctl")
    /\ pmem_sysctl_needs_cleanup' = 1
    /\ ret' = error
    /\ ret_hook' = "start"
    /\ lifecycle' = "Running"
    /\ pc' = "idle"
    /\ UNCHANGED <<pmem_majorno, pmem_tag, pmem_rwlock_grp,
                   pmem_rwlock_grp_attr, pmem_mutex_grp, pmem_mutex_grp_attr,
                   pmem_infonode, pmem_devnode, cu_idx, error, cleanup_arg,
                   failed_step, inv, last_dispatch>>

\* ---------------------------------------------------- com_google_MacPmem_stop
\* The host calls the stop hook of a started extension; an extension whose
\* stop hook answered non-success stays started and may be stopped again.
StopCall ==
    /\ lifecycle = "Running" /\ pc = "idle"
    /\ inv < 1 + MaxStops
    /\ lifecycle' = "Unloading"
    /\ inv' = inv + 1
    /\ ret_hook' = "none"
    /\ error' = KERN_SUCCESS
    /\ cleanup_arg' = KERN_SUCCESS
    /\ cu_idx' = 1
    /\ pc' = "cleanup"
    /\ last_dispatch' = NoDispatch
    /\ UNCHANGED <<globals, failed_step, ret, host, calls>>

\* ---------------------------------------------------------------- pmem_cleanup
\* Variant: the major number is deregistered before the nodes are removed.
CleanupOrder_MajorFirst ==
    << "cdevsw", "devnode", "infonode", "tag", "meta", "pte", "sysctl",
       "mutex_grp_attr", "mutex_grp", "rwlock_grp_attr", "rwlock_grp" >>

\* Variant: the lock groups are freed first.
CleanupOrder_LocksFirst ==
    << "mutex_grp_attr", "mutex_grp", "rwlock_grp_attr", "rwlock_grp",
       "devnode", "infonode", "cdevsw", "tag", "meta", "pte", "sysctl" >>

\* The statements of pmem_cleanup, in the order the code executes them.
CleanupOrder ==
    << "devnode", "infonode", "cdevsw", "tag", "meta", "pte", "sysctl",
       "mutex_grp_attr", "mutex_grp", "rwlock_grp_attr", "rwlock_grp" >>

CleanupStep == IF cu_idx \in 1..Len(CleanupOrder) THEN CleanupOrder[cu_idx] ELSE "none"

InCleanup == lifecycle \in {"Acquiring", "Unloading"} /\ pc = "cleanup"

\* Variant: a statement that changes `error` returns at once.
AdvanceCleanup_ShortCircuit(e) ==
    /\ error' = e
    /\ IF e # error
       THEN cu_idx' = 0 /\ pc' = "cleanup_ret"
       ELSE IF cu_idx < Len(CleanupOrder)
            THEN cu_idx' = cu_idx + 1 /\ pc' = "cleanup"
            ELSE cu_idx' = 0 /\ pc' = "cleanup_ret"
    /\ UNCHANGED <<lifecycle, cleanup_arg, failed_step, ret, ret_hook, inv>>

\* Moves to the next statement of pmem_cleanup with `error` set to e.
AdvanceCleanup(e) ==
    /\ error' = e
    /\ IF cu_idx < Len(CleanupOrder)
       THEN cu_idx' = cu_idx + 1 /\ pc' = "cleanup"
       ELSE cu_idx' = 0 /\ pc' = "cleanup_ret"
    /\ UNCHANGED <<lifecycle, cleanup_arg, failed_step, ret, ret_hook, inv>>

\* if (guard) fn(handle);  -- fn releases the object behind the handle.
ReleaseStep(fn, res, set, guard) ==
    IF guard
    THEN \E out \in Outcomes(res) :
            /\ calls' = Append(calls, Call(fn, res, set, 0))
            /\ host' = Released(res)
            /\ IF out = "panic"
               THEN Panic
               ELSE AdvanceCleanup(error)
    ELSE /\ calls' = calls
         /\ host' = host
         /\ AdvanceCleanup(error)

\* if (pmem_devnode) devfs_remove(pmem_devnode);
DevnodeSet == pmem_devnode # 0

CleanupDevnode ==
    /\ InCleanup /\ CleanupStep = "devnode"
    /\ ReleaseStep("devfs_remove", "devnode", TRUE, DevnodeSet)
    /\ UNCHANGED <<globals, last_dispatch>>

\* Variant: the info node is never removed.
InfonodeSet_Never == FALSE

\* if (pmem_infonode) devfs_remove(pmem_infonode);
InfonodeSet == pmem_infonode # 0

CleanupInfonode ==
    /\ InCleanup /\ CleanupStep = "infonode"
    /\ ReleaseStep("devfs_remove", "infonode", TRUE, InfonodeSet)
    /\ UNCHANGED <<globals, last_dispatch>>

\* if (pmem_majorno > 0)
MajornoSet == pmem_majorno > 0

\* Variant: the answer of cdevsw_remove is not checked.
CleanupStatus_Unchecked(e, majorno, removed_idx) == e

\* Variant: a failed check replaces only a success status.
CleanupStatus_KeepPrior(e, majorno, removed_idx) ==
    IF removed_idx # majorno /\ e = KERN_SUCCESS THEN KERN_FAILURE ELSE e

\* if (removed_idx != pmem_majorno) error = KERN_FAILURE;
CleanupStatus(e, majorno, removed_idx) ==
    IF removed_idx # majorno THEN KERN_FAILURE ELSE e

\* removed_idx = cdevsw_remove(pmem_majorno, &pmem_cdevsw): the host answers
\* the index when it removed the entry and -1 when it did not; it cannot
\* remove an entry that is not there.
CleanupMajor ==
    /\ InCleanup /\ CleanupStep = "cdevsw"
    /\ IF MajornoSet
       THEN \E removed_idx \in
                 (IF host["cdevsw"] = "live" THEN {pmem_majorno, -1} ELSE {-1}) :
              /\ calls' = Append(calls,
                            Call("cdevsw_remove", "cdevsw", TRUE, removed_idx))
              /\ host' = IF removed_idx = pmem_majorno
                         THEN Released("cdevsw") ELSE host
              /\ AdvanceCleanup(CleanupStatus(error, pmem_majorno, removed_idx))
       ELSE /\ calls' = calls
            /\ host' = host
            /\ AdvanceCleanup(error)
    /\ UNCHANGED <<globals, last_dispatch>>

\* if (pmem_tag) OSMalloc_Tagfree(pmem_tag);
CleanupTag ==
    /\ InCleanup /\ CleanupStep = "tag"
    /\ ReleaseStep("OSMalloc_Tagfree", "tag", TRUE, pmem_tag # 0)
    /\ UNCHANGED <<globals, last_dispatch>>

\* pmem_meta_cleanup(); -- unconditional, idempotent by contract.
CleanupMeta ==
    /\ InCleanup /\ CleanupStep = "meta"
    /\ calls' = Append(calls, Call("pmem_meta_cleanup", "meta", TRUE, 0))
    /\ host' = Released("meta")
    /\ AdvanceCleanup(error)
    /\ UNCHANGED <<globals, last_dispatch>>

\* pmem_pte_cleanup(); -- unconditional, idempotent by contract.
CleanupPte ==
    /\ InCleanup /\ CleanupStep = "pte"
    /\ calls' = Append(calls, Call("pmem_pte_cleanup", "pte", TRUE, 0))
    /\ host' = Released("pte")
    /\ AdvanceCleanup(error)
    /\ UNCHANGED <<globals, last_dispatch>>

\* if (pmem_sysctl_needs_cleanup) sysctl_unregister_oid(..);
CleanupSysctl ==
    /\ InCleanup /\ CleanupStep = "sysctl"
    /\ ReleaseStep("sysctl_unregister_oid", "sysctl", TRUE,
                   pmem_sysctl_needs_cleanup # 0)
    /\ UNCHANGED <<globals, last_dispatch>>

LockResources == {"mutex_grp_attr", "mutex_grp", "rwlock_grp_attr", "rwlock_grp"}

LockHandle(res) ==
    CASE res = "mutex_grp_attr" -> pmem_mutex_grp_attr
      [] res = "mutex_grp" -> pmem_mutex_grp
      [] res = "rwlock_grp_attr" -> pmem_rwlock_grp_attr
      [] res = "rwlock_grp" -> pmem_rwlock_grp

LockFreeFn(res) ==
    IF res \in {"mutex_grp_attr", "rwlock_grp_attr"}
    THEN "lck_grp_attr_free" ELSE "lck_grp_free"

\* Variant: only the groups are freed, the attribute objects are not.
LockFreeGuard_GroupsOnly(res) == res \in {"mutex_grp", "rwlock_grp"}

\* The guard the code puts before each lock-group free: none.
LockFreeGuard(res) == TRUE

\* lck_grp_attr_free(pmem_mutex_grp_attr); lck_grp_free(pmem_mutex_grp);
\* lck_grp_attr_free(pmem_rwlock_grp_attr); lck_grp_free(pmem_rwlock_grp);
CleanupLocks ==
    /\ InCleanup /\ CleanupStep \in LockResources
    /\ ReleaseStep(LockFreeFn(CleanupStep), CleanupStep,
                   LockHandle(CleanupStep) # 0, LockFreeGuard(CleanupStep))
    /\ UNCHANGED <<globals, last_dispatch>>

\* return error;  -- and the hook returns what pmem_cleanup returned.
CleanupReturn ==
    /\ lifecycle \in {"Acquiring", "Unloading"} /\ pc = "cleanup_ret"
    /\ ret' = error
    /\ ret_hook' = IF lifecycle = "Acquiring" THEN "start" ELSE "stop"
    /\ lifecycle' = IF lifecycle = "Acquiring" THEN "LoadFailed"
                    ELSE IF error = KERN_SUCCESS THEN "Stopped" ELSE "Running"
    /\ pc' = "idle"
    /\ UNCHANGED <<globals, cu_idx, error, cleanup_arg, failed_step, inv,
                   host, calls, last_dispatch>>

\* ------------------------------------------------------------------ dispatch
\* Variant: an unknown minor number is treated as the raw-memory device.
pmem_open_NoDefault(m, r) ==
    CASE m = PMEM_INFO_MINOR -> [ret |-> r, called |-> {"pmem_openmeta"}]
      [] OTHER -> [ret |-> KERN_SUCCESS, called |-> {}]

\* r is the status the collaborator answers when it is called.
pmem_open(m, r) ==
    CASE m = PMEM_DEV_MINOR -> [ret |-> KERN_SUCCESS, called |-> {}]
      [] m = PMEM_INFO_MINOR -> [ret |-> r, called |-> {"pmem_openmeta"}]
      [] OTHER -> [ret |-> KERN_FAILURE, called |-> {}]

pmem_close(m, r) ==
    CASE m = PMEM_DEV_MINOR -> [ret |-> KERN_SUCCESS, called |-> {}]
      [] m = PMEM_INFO_MINOR -> [ret |-> r, called |-> {"pmem_closemeta"}]
      [] OTHER -> [ret |-> KERN_FAILURE, called |-> {}]

pmem_read(m, r) ==
    CASE m = PMEM_DEV_MINOR -> [ret |-> r, called |-> {"pmem_read_rogue"}]
      [] m = PMEM_INFO_MINOR -> [ret |-> r, called |-> {"pmem_readmeta"}]
      [] OTHER -> [ret |-> KERN_FAILURE, called |-> {}]

Dispatched(op, m, r, res) ==
    [op |-> op, minor |-> m, collab |-> r, ret |-> res.ret, called |-> res.called]

\* Variant: an open of an unknown minor clears the config-variable flag.
Open_ClearsFlag ==
    /\ lifecycle = "Running" /\ pc = "idle"
    /\ \E m \in Minors, r \in Statuses :
        /\ last_dispatch' = Dispatched("open", m, r, pmem_open(m, r))
        /\ pmem_sysctl_needs_cleanup' =
              IF m \in {PMEM_DEV_MINOR, PMEM_INFO_MINOR}
              THEN pmem_sysctl_needs_cleanup ELSE 0
    /\ UNCHANGED <<pmem_majorno, pmem_tag, pmem_rwlock_grp,
                   pmem_rwlock_grp_attr, pmem_mutex_grp, pmem_mutex_grp_attr,
                   pmem_infonode, pmem_devnode, control, host, calls>>

Open ==
    /\ lifecycle = "Running" /\ pc = "idle"
    /\ \E m \in Minors, r \in Statuses :
        last_dispatch' = Dispatched("open", m, r, pmem_open(m, r))
    /\ UNCHANGED <<globals, control, host, calls>>

Close ==
    /\ lifecycle = "Running" /\ pc = "idle"
    /\ \E m \in Minors, r \in Statuses :
        last_dispatch' = Dispatched("close", m, r, pmem_close(m, r))
    /\ UNCHANGED <<globals, control, host, calls>>

Read ==
    /\ lifecycle = "Running" /\ pc = "idle"
    /\ \E m \in Minors, r \in Statuses :
        last_dispatch' = Dispatched("read", m, r, pmem_read(m, r))
    /\ UNCHANGED <<globals, control, host, calls>>

\* ------------------------------------------------------------- specification
Next ==
    \/ StartCall
    \/ InitTag
    \/ InitRwlockGroup
    \/ InitMutexGroup
    \/ InitMajor
    \/ InitInfoNode
    \/ InitDevNode
    \/ MetaInit
    \/ PteInit
    \/ SysctlRegister
    \/ StopCall
    \/ CleanupDevnode
    \/ CleanupInfonode
    \/ CleanupMajor
    \/ CleanupTag
    \/ CleanupMeta
    \/ CleanupPte
    \/ CleanupSysctl
    \/ CleanupLocks
    \/ CleanupReturn
    \/ Open
    \/ Close
    \/ Read

Spec == Init /\ [][Next]_vars

TypeOK ==
    /\ pmem_majorno \in Majors
    /\ globals \in Majors \X Handles \X Handles \X Handles \X Handles \X Handles
                     \X Handles \X Handles \X Handles
    /\ host \in [Resources -> {"none", "live", "released"}]
    /\ cu_idx \in 0..Len(CleanupOrder)
    /\ error \in Statuses /\ ret \in Statuses /\ cleanup_arg \in Statuses
    /\ failed_step \in 0..6
    /\ inv \in 0..(1 + MaxStops)

\* ------------------------------------------------------------------ properties
ReleaseFns ==
    {"devfs_remove", "cdevsw_remove", "OSMalloc_Tagfree",
     "sysctl_unregister_oid", "lck_grp_attr_free", "lck_grp_free"}

CleanupFns == ReleaseFns \cup {"pmem_meta_cleanup", "pmem_pte_cleanup"}

Idx == 1..Len(calls)

\* The call released the object it was issued for.
DidRelease(c) ==
    /\ c.fn \in CleanupFns
    /\ c.live
    /\ c.fn = "cdevsw_remove" => c.ret = pmem_majorno

\* A release of resource r was issued during hook invocation n.
ReleaseIssued(r, n) ==
    \E i \in Idx : calls[i].fn \in CleanupFns /\ calls[i].res = r /\ calls[i].inv = n

\* cdevsw_remove was called in hook invocation n and did not echo the number.
DeregMismatch(n) ==
    \E i \in Idx : /\ calls[i].fn = "cdevsw_remove"
                   /\ calls[i].inv = n
                   /\ calls[i].ret # pmem_majorno

\* cdevsw_remove was called in hook invocation n and echoed the number.
DeregEchoed(n) ==
    \E i \in Idx : /\ calls[i].fn = "cdevsw_remove"
                   /\ calls[i].inv = n
                   /\ calls[i].ret = pmem_majorno

\* Acquisition step (1..7) a resource belongs to; the tag precedes step 1.
StepOf(r) ==
    CASE r \in LockResources -> 1
      [] r = "cdevsw" -> 2
      [] r = "infonode" -> 3
      [] r = "devnode" -> 4
      [] r = "meta" -> 5
      [] r = "pte" -> 6
      [] r = "sysctl" -> 7
      [] OTHER -> 0

\* Step 1 failed: an allocation of a lock group or of its attribute was NULL.
Step1Failed ==
    \/ pmem_rwlock_grp_attr = 0 \/ pmem_rwlock_grp = 0
    \/ pmem_mutex_grp_attr = 0 \/ pmem_mutex_grp = 0

\* The acquisition step that failed in the start that has returned, 0 if none.
FailedAt == IF Step1Failed THEN 1 ELSE failed_step

StartReturned == ret_hook = "start" /\ pc = "idle"
StopReturned == ret_hook = "stop" /\ pc = "idle"

\* C1 (as claimed): a second invocation of the rollback routine is a no-op:
\* it issues no release call for a resource that an earlier invocation has
\* already released.
C1_SecondRollbackIsNoOp ==
    \A i \in Idx, j \in Idx :
        (/\ i < j
         /\ calls[i].inv < calls[j].inv
         /\ calls[i].res = calls[j].res
         /\ DidRelease(calls[i]))
        => calls[j].fn \notin ReleaseFns

\* C2 (as claimed): when start returns after step k in 1..6 failed, it
\* returns non-success, a release was issued for every resource acquired by
\* steps 1..k-1, and nothing of step k or later is present.
C2_TotalRollback ==
    (StartReturned /\ FailedAt \in 1..6) =>
        /\ ret # KERN_SUCCESS
        /\ \A r \in Resources :
            /\ (StepOf(r) \in 1..(FailedAt - 1) /\ host[r] # "none")
                  => (ReleaseIssued(r, inv) /\ host[r] # "live")
            /\ StepOf(r) >= FailedAt => host[r] # "live"

\* C3: in every invocation of the rollback routine each devfs_remove comes
\* before the cdevsw_remove, and in no state does a device node exist while
\* the major number is deregistered.
C3_NodesBeforeMajor ==
    /\ \A i \in Idx, j \in Idx :
        (/\ calls[i].fn = "cdevsw_remove"
         /\ calls[j].fn = "devfs_remove"
         /\ calls[i].inv = calls[j].inv) => j < i
    /\ host["cdevsw"] = "released" =>
        (host["infonode"] # "live" /\ host["devnode"] # "live")

C3_Witness ==
    /\ host["cdevsw"] = "released"
    /\ host["infonode"] = "released"
    /\ host["devnode"] = "released"
    /\ \E i \in Idx : calls[i].fn = "cdevsw_remove"

\* C4: when stop returns after cdevsw_remove answered a number different
\* from the registered major number, stop returns failure; when it answered
\* the registered number, stop returns success.
C4_RegistrationConsistency ==
    StopReturned =>
        /\ DeregMismatch(inv) => ret = KERN_FAILURE
        /\ (DeregEchoed(inv) /\ ~DeregMismatch(inv)) => ret = KERN_SUCCESS

C4_Witness ==
    StopReturned /\ DeregMismatch(inv) /\ ret = KERN_FAILURE /\ inv = 2

\* C5 (as claimed): when start fails at a step with status E, start returns
\* exactly E, whatever happens during rollback.
C5_ReturnsFailingStepError ==
    (StartReturned /\ failed_step # 0) => ret = cleanup_arg

\* C5 (amended): a hook that returns through pmem_cleanup(E) returns E when
\* the deregistration check passed or was skipped, and KERN_FAILURE when the
\* check failed, whatever E is; a failed start never returns success.
C5_ReturnsErrorOrCheckFailure ==
    /\ (StartReturned /\ failed_step # 0) =>
        /\ ret # KERN_SUCCESS
        /\ ret = IF DeregMismatch(inv) THEN KERN_FAILURE ELSE cleanup_arg
    /\ StopReturned =>
        ret = IF DeregMismatch(inv) THEN KERN_FAILURE ELSE cleanup_arg

C5_Witness ==
    /\ StartReturned
    /\ failed_step = 5
    /\ cleanup_arg = KERN_RESOURCE_SHORTAGE
    /\ DeregMismatch(inv)
    /\ ret = KERN_FAILURE

\* C6: open and close on the raw-memory minor succeed without calling a
\* collaborator and read calls only pmem_read_rogue; on the metadata minor
\* each goes only to its pmem_*meta function and answers its result; every
\* other minor answers KERN_FAILURE and calls no collaborator.
C6_DispatchCorrect ==
    LET d == last_dispatch IN
    d.op # "none" =>
        /\ d.minor = PMEM_DEV_MINOR =>
            /\ d.op \in {"open", "close"} => (d.ret = KERN_SUCCESS /\ d.called = {})
            /\ d.op = "read" => (d.ret = d.collab /\ d.called = {"pmem_read_rogue"})
        /\ d.minor = PMEM_INFO_MINOR =>
            /\ d.ret = d.collab
            /\ d.op = "open" => d.called = {"pmem_openmeta"}
            /\ d.op = "close" => d.called = {"pmem_closemeta"}
            /\ d.op = "read" => d.called = {"pmem_readmeta"}
        /\ d.minor \notin {PMEM_DEV_MINOR, PMEM_INFO_MINOR} =>
            (d.ret = KERN_FAILURE /\ d.called = {})

C6_Witness ==
    /\ last_dispatch.op = "open"
    /\ last_dispatch.minor = 0
    /\ last_dispatch.collab = KERN_SUCCESS
    /\ last_dispatch.ret = KERN_FAILURE

\* The number of release calls issued for resource r so far.
ReleaseCount(r) ==
    Cardinality({i \in Idx : calls[i].fn \in CleanupFns /\ calls[i].res = r})

\* C7 (as claimed): after a start in which every step succeeded and one stop
\* in which the host echoed the major number whenever it was asked to
\* deregister it, every resource class has been released exactly once,
\* nothing remains held and stop returned success.
C7_FullLifecycle ==
    (StopReturned /\ inv = 2 /\ ~Step1Failed /\ ~DeregMismatch(inv)) =>
        /\ ret = KERN_SUCCESS
        /\ \A r \in Resources :
            StepOf(r) \in 1..7 => (ReleaseCount(r) = 1 /\ host[r] = "released")

\* C8 (as claimed): no host release call is issued for a handle that is
\* unset, that is NULL / never acquired or already released.
C8_NoReleaseOfUnsetHandle ==
    \A i \in Idx :
        calls[i].fn \in ReleaseFns => (calls[i].set /\ calls[i].live)

\* C9: whenever start or stop returns, either both device nodes exist or
\* neither does.
C9_BothOrNeither ==
    (StartReturned \/ StopReturned) =>
        (host["infonode"] = "live" <=> host["devnode"] = "live")

C9_Witness ==
    /\ StartReturned
    /\ failed_step = 4
    /\ host["infonode"] = "released"
    /\ host["devnode"] = "none"

\* The releases issued by the start invocation, as indexes into calls.
StartRollback == {i \in Idx : calls[i].inv = 1 /\ calls[i].fn \in CleanupFns}

\* C10 (as claimed): when start fails, the acquired resources of steps 1..6
\* are released in strict reverse order of their acquisition.
C10_StrictReverseOrder ==
    (StartReturned /\ failed_step # 0) =>
        \A i \in StartRollback, j \in StartRollback :
            (/\ i < j
             /\ host[calls[i].res] # "none" /\ host[calls[j].res] # "none"
             /\ StepOf(calls[i].res) \in 1..6 /\ StepOf(calls[j].res) \in 1..6)
            => StepOf(calls[i].res) >= StepOf(calls[j].res)

\* Position of a resource in the order the rollback routine releases in.
RollbackRank(r) ==
    CASE r = "devnode" -> 1
      [] r = "infonode" -> 2
      [] r = "cdevsw" -> 3
      [] r = "tag" -> 4
      [] r = "meta" -> 5
      [] r = "pte" -> 6
      [] r = "sysctl" -> 7
      [] OTHER -> 8

\* C10 (amended): when start fails, the releases are issued in the fixed
\* order raw-memory node, info node, major number, allocation tag, metadata
\* cleanup, page-table cleanup, lock groups: nodes, major number and lock
\* groups in reverse order of acquisition, the collaborators after the major
\* number and before the lock groups.
C10_FixedRollbackOrder ==
    (StartReturned /\ failed_step # 0) =>
        \A i \in StartRollback, j \in StartRollback :
            i < j => RollbackRank(calls[i].res) <= RollbackRank(calls[j].res)

C10_Witness ==
    /\ StartReturned
    /\ failed_step = 6
    /\ host["meta"] = "released"
    /\ host["devnode"] = "released"
    /\ host["cdevsw"] = "released"
    /\ host["mutex_grp"] = "released"

\* A hook has returned through pmem_cleanup.
RolledBack == (StartReturned /\ failed_step # 0) \/ StopReturned

\* Function fn was called during hook invocation n.
Called(fn, n) == \E i \in Idx : calls[i].fn = fn /\ calls[i].inv = n

\* Function fn was called on resource r during hook invocation n.
CalledOn(fn, r, n) ==
    \E i \in Idx : calls[i].fn = fn /\ calls[i].res = r /\ calls[i].inv = n

\* C11 (as claimed): every non-negative answer of cdevsw_add is taken as a
\* registration, and after a rollback in which the host does not refuse the
\* deregistration the major number is no longer registered, for every
\* assigned number n >= 0, n = 0 included.
C11_MajorReleasedForEveryAssignment ==
    /\ (StartReturned /\ failed_step = 2) => pmem_majorno < 0
    /\ (RolledBack /\ pmem_majorno >= 0 /\ ~DeregMismatch(inv))
          => host["cdevsw"] # "live"

LaterStepFns ==
    {"cdevsw_add", "devfs_make_node", "pmem_meta_init", "pmem_pte_init",
     "sysctl_register_oid"}

\* C12 (as claimed): when an allocation of step 1 answered NULL, start
\* returns failure and none of the later steps has been performed.
C12_LockFailureAbortsStartup ==
    (StartReturned /\ Step1Failed) =>
        /\ ret # KERN_SUCCESS
        /\ \A i \in Idx : calls[i].fn \notin LaterStepFns

\* The last call of cdevsw_remove in hook invocation n, 0 if there is none.
DeregIndex(n) ==
    LET S == {i \in Idx : calls[i].fn = "cdevsw_remove" /\ calls[i].inv = n}
    IN IF S = {} THEN 0 ELSE CHOOSE i \in S : \A k \in S : k <= i

\* Function fn was called on r in invocation n after position k of calls.
CalledOnAfter(fn, r, n, k) ==
    \E i \in Idx :
        calls[i].fn = fn /\ calls[i].res = r /\ calls[i].inv = n /\ i > k

\* C13: every invocation of the rollback routine that returns has called
\* both collaborator cleanups; and when its deregistration check failed it
\* has, after the failed check, freed the tag if set, called both
\* collaborator cleanups, unregistered the config variable if its flag is
\* set and freed both lock groups and their attributes.
C13_ExhaustiveCleanup ==
    RolledBack =>
        /\ Called("pmem_meta_cleanup", inv) /\ Called("pmem_pte_cleanup", inv)
        /\ DeregMismatch(inv) =>
            LET k == DeregIndex(inv) IN
            /\ pmem_tag # 0 => CalledOnAfter("OSMalloc_Tagfree", "tag", inv, k)
            /\ CalledOnAfter("pmem_meta_cleanup", "meta", inv, k)
            /\ CalledOnAfter("pmem_pte_cleanup", "pte", inv, k)
            /\ pmem_sysctl_needs_cleanup # 0 =>
                 CalledOnAfter("sysctl_unregister_oid", "sysctl", inv, k)
            /\ CalledOnAfter("lck_grp_attr_free", "mutex_grp_attr", inv, k)
            /\ CalledOnAfter("lck_grp_free", "mutex_grp", inv, k)
            /\ CalledOnAfter("lck_grp_attr_free", "rwlock_grp_attr", inv, k)
            /\ CalledOnAfter("lck_grp_free", "rwlock_grp", inv, k)

C13_Witness ==
    /\ StopReturned
    /\ DeregMismatch(inv)
    /\ pmem_tag # 0
    /\ host["tag"] = "released"
    /\ host["sysctl"] = "released"
    /\ host["rwlock_grp"] = "released"

\* C14 (as claimed): between hook invocations, while the extension is
\* loaded or not yet started, the flag is set exactly when the config
\* variable is registered, and sysctl_unregister_oid is called only while
\* the variable is registered.
C14_FlagTracksRegistration ==
    /\ (pc = "idle" /\ lifecycle \in {"Unloaded", "Running", "LoadFailed"}) =>
          (pmem_sysctl_needs_cleanup # 0 <=> host["sysctl"] = "live")
    /\ \A i \in Idx : calls[i].fn = "sysctl_unregister_oid" => calls[i].live

AttrResources == {"mutex_grp_attr", "rwlock_grp_attr"}

\* C16 (as claimed): when start returns, no lock-group attribute object is
\* still allocated, and the rollback routine never frees one.
C16_AttrFreedAtCreation ==
    /\ StartReturned => \A a \in AttrResources : host[a] # "live"
    /\ \A i \in Idx : calls[i].fn = "lck_grp_attr_free" => ~calls[i].live

\* The group an attribute object was used to create.
GroupOf(a) == IF a = "mutex_grp_attr" THEN "mutex_grp" ELSE "rwlock_grp"

\* C16 (amended): each attribute object is allocated, used to create its
\* group and kept in its global: pmem_init frees none, after a successful
\* start every attribute that was allocated is still allocated, and a
\* rollback that returns has freed each one, right before its group.
C16_AttrFreedByRollback ==
    /\ (lifecycle = "Acquiring" /\ pc \notin {"cleanup", "cleanup_ret"}) =>
          \A i \in Idx : calls[i].fn # "lck_grp_attr_free"
    /\ (StartReturned /\ ret = KERN_SUCCESS) =>
          \A a \in AttrResources : LockHandle(a) # 0 => host[a] = "live"
    /\ RolledBack =>
          \A a \in AttrResources :
            /\ host[a] # "live"
            /\ \E i \in Idx :
                /\ calls[i].fn = "lck_grp_attr_free"
                /\ calls[i].res = a
                /\ calls[i].inv = inv
                /\ i < Len(calls)
                /\ calls[i + 1].fn = "lck_grp_free"
                /\ calls[i + 1].res = GroupOf(a)

C16_Witness ==
    /\ StopReturned
    /\ inv = 2
    /\ host["mutex_grp_attr"] = "released"
    /\ host["rwlock_grp_attr"] = "released"
    /\ host["mutex_grp"] = "released"

\* The number of times pmem_cleanup was entered during hook invocation n:
\* each entry that returns calls pmem_meta_cleanup exactly once.
RollbackCount(n) ==
    Cardinality({i \in Idx : calls[i].fn = "pmem_meta_cleanup" /\ calls[i].inv = n})

\* C17: a start that returns non-success has run the rollback routine
\* exactly once and a start that returns success has not run it; success is
\* returned only with the major number registered and non-negative, both
\* node handles set, both collaborators initialised and the config variable
\* registered with its flag set.
C17_StartOutcome ==
    StartReturned =>
        /\ ret # KERN_SUCCESS =>
              (RollbackCount(1) = 1 /\ failed_step \in 2..6)
        /\ ret = KERN_SUCCESS =>
            /\ \A i \in Idx : calls[i].fn \notin CleanupFns
            /\ failed_step = 0
            /\ pmem_majorno >= 0 /\ host["cdevsw"] = "live"
            /\ pmem_infonode # 0 /\ host["infonode"] = "live"
            /\ pmem_devnode # 0 /\ host["devnode"] = "live"
            /\ host["meta"] = "live" /\ host["pte"] = "live"
            /\ \E i \in Idx : calls[i].fn = "pmem_meta_init" /\ calls[i].ret = KERN_SUCCESS
            /\ \E i \in Idx : calls[i].fn = "pmem_pte_init" /\ calls[i].ret = KERN_SUCCESS
            /\ host["sysctl"] = "live" /\ pmem_sysctl_needs_cleanup = 1

C17_Witness ==
    /\ StartReturned
    /\ ret = KERN_SUCCESS
    /\ pmem_majorno = 0
    /\ host["sysctl"] = "live"
    /\ ~Step1Failed

====
